---- MODULE Spec2Model ----
(***************************************************************************)
(* LU decomposition with partial pivoting of nalgebra-lapack (lu.rs).      *)
(*                                                                         *)
(* The handle LU { lu, p } wraps the LAPACK routines xGETRF, xLASWP,       *)
(* xGETRS and xGETRI.  Matrices are column-major buffers, as nalgebra      *)
(* stores them and as the native routines read them.  Scalars are exact    *)
(* rationals <<num, den>> (den > 0, lowest terms) and the non-finite       *)
(* floats: <<1, 0>> is +inf, <<-1, 0>> is -inf, <<0, 0>> is NaN.           *)
(* All dimensions are dynamic (R = C = Dyn), the most permissive typing    *)
(* the generic code accepts.                                               *)
(***************************************************************************)
EXTENDS Integers, Sequences, FiniteSets

\* Largest number of rows and of columns of a matrix.
MaxDim == 3
\* Entries of the input matrices and right-hand sides are 0..MaxVal.
MaxVal == 1
\* Largest number of columns of a right-hand side.
MaxRhsCols == 1
\* Matrices of up to MaxSmallDim rows and columns also take the entries
\* -MaxSmallVal..MaxSmallVal, so that pivots are chosen by magnitude.
MaxSmallDim == 2
MaxSmallVal == 2

Min(a, b) == IF a < b THEN a ELSE b
Max(a, b) == IF a > b THEN a ELSE b
Abs(x) == IF x < 0 THEN -x ELSE x

RECURSIVE GCD(_, _)
GCD(a, b) == IF b = 0 THEN a ELSE GCD(b, a % b)

(***************************************************************************)
(* Scalar arithmetic of T, as IEEE floating point does it on values that   *)
(* are exactly representable.  Zero carries no sign: the zero pivots that  *)
(* are divided by are results of a subtraction, which are +0.              *)
(***************************************************************************)
PosInf == <<1, 0>>
NegInf == <<-1, 0>>
NaN == <<0, 0>>
\* The content of memory that the program never wrote: any bit pattern.
Unspecified == <<0, -1>>
Zero == <<0, 1>>
One == <<1, 1>>
FromInt(v) == <<v, 1>>
IsFinite(x) == x[2] > 0
IsInf(x) == x[2] = 0 /\ x[1] # 0
Sign(x) == IF x[1] < 0 THEN -1 ELSE IF x[1] > 0 THEN 1 ELSE 0
InfOf(sgn) == IF sgn < 0 THEN NegInf ELSE PosInf

\* n / d in lowest terms, d # 0.
Rat(n, d) ==
    IF d = 0 THEN NaN
    ELSE LET g == GCD(Abs(n), Abs(d))
             s == IF d < 0 THEN -1 ELSE 1
         IN <<(s * n) \div g, (s * d) \div g>>

RNeg(x) == <<-x[1], x[2]>>

RAdd(x, y) ==
    IF x = Unspecified \/ y = Unspecified THEN Unspecified
    ELSE IF x = NaN \/ y = NaN THEN NaN
    ELSE IF IsInf(x) /\ IsInf(y) THEN (IF x = y THEN x ELSE NaN)
    ELSE IF IsInf(x) THEN x
    ELSE IF IsInf(y) THEN y
    ELSE Rat(x[1] * y[2] + y[1] * x[2], x[2] * y[2])

RSub(x, y) == RAdd(x, RNeg(y))

\* inf * 0 is NaN.
RMul(x, y) ==
    IF x = Unspecified \/ y = Unspecified THEN Unspecified
    ELSE IF x = NaN \/ y = NaN THEN NaN
    ELSE IF IsInf(x) \/ IsInf(y)
         THEN (IF x = Zero \/ y = Zero THEN NaN ELSE InfOf(Sign(x) * Sign(y)))
    ELSE Rat(x[1] * y[1], x[2] * y[2])

\* x / 0 is inf with the sign of x, 0 / 0 and inf / inf are NaN, a finite
\* value divided by inf is 0.
RDiv(x, y) ==
    IF x = Unspecified \/ y = Unspecified THEN Unspecified
    ELSE IF x = NaN \/ y = NaN THEN NaN
    ELSE IF IsInf(x) THEN (IF IsInf(y) THEN NaN
                           ELSE InfOf(Sign(x) * (IF Sign(y) < 0 THEN -1 ELSE 1)))
    ELSE IF IsInf(y) THEN Zero
    ELSE IF y = Zero THEN (IF x = Zero THEN NaN ELSE InfOf(Sign(x)))
    ELSE Rat(x[1] * y[2], x[2] * y[1])

\* |x| > |y|: false when either is NaN, |inf| exceeds every finite value.
\* (Not applied to Unspecified: no comparison reads memory outside a buffer.)
RAbsGt(x, y) ==
    IF x = NaN \/ y = NaN THEN FALSE
    ELSE IF IsInf(y) THEN FALSE
    ELSE IF IsInf(x) THEN TRUE
    ELSE Abs(x[1]) * y[2] > Abs(y[1]) * x[2]

(***************************************************************************)
(* Column-major buffers: element (i, j) of a buffer with leading dimension *)
(* lda is at position (j-1)*lda + i.                                       *)
(***************************************************************************)
Idx(lda, i, j) == (j - 1) * lda + i
RowOf(lda, k) == ((k - 1) % lda) + 1
ColOf(lda, k) == ((k - 1) \div lda) + 1

(***************************************************************************)
(* xGETRF: A = P * L * U by partial pivoting with row interchanges, on the *)
(* m rows and n columns of a; rows m+1..lda of a column are padding that   *)
(* the routine leaves alone.  Returns [a, ipiv, info].                     *)
(***************************************************************************)
\* IxAMAX on rows j..m of column j: the first entry of largest magnitude,
\* found by a scan that replaces the candidate on a strictly larger one.
RECURSIVE IdaMaxScan(_, _, _, _, _, _)
IdaMaxScan(a, lda, j, m, i, best) ==
    IF i > m THEN best
    ELSE IdaMaxScan(a, lda, j, m, i + 1,
                    IF RAbsGt(a[Idx(lda, i, j)], a[Idx(lda, best, j)]) THEN i ELSE best)

IdaMax(a, lda, j, m) == IdaMaxScan(a, lda, j, m, j + 1, j)

RECURSIVE GetrfLoop(_, _, _, _, _)
GetrfLoop(m, n, lda, st, j) ==
    IF j > Min(m, n) THEN st
    ELSE
        LET a == st.a
            jp == IdaMax(a, lda, j, m)
            piv == a[Idx(lda, jp, j)]
            SwRow(i) == IF i = j THEN jp ELSE IF i = jp THEN j ELSE i
            a1 == IF piv # Zero
                  THEN [k \in 1..Len(a) |->
                          LET i == RowOf(lda, k)
                              c == ColOf(lda, k)
                          IN IF i > m \/ c > n THEN a[k]
                             ELSE LET v == a[Idx(lda, SwRow(i), c)]
                                  IN IF c = j /\ i > j THEN RDiv(v, piv) ELSE v]
                  ELSE a
            a2 == IF j < Min(m, n)
                  THEN [k \in 1..Len(a) |->
                          LET i == RowOf(lda, k)
                              c == ColOf(lda, k)
                          IN IF i > j /\ i <= m /\ c > j /\ c <= n
                             THEN RSub(a1[k], RMul(a1[Idx(lda, i, j)], a1[Idx(lda, j, c)]))
                             ELSE a1[k]]
                  ELSE a1
        IN GetrfLoop(m, n, lda,
                     [a |-> a2,
                      ipiv |-> [st.ipiv EXCEPT ![j] = jp],
                      info |-> IF piv = Zero /\ st.info = 0 THEN j ELSE st.info],
                     j + 1)

xgetrf(m, n, a, lda, ipiv) ==
    LET bad == IF m < 0 THEN -1
               ELSE IF n < 0 THEN -2
               ELSE IF lda < Max(1, m) THEN -4
               ELSE 0
    IN IF bad # 0 THEN [a |-> a, ipiv |-> ipiv, info |-> bad]
       ELSE GetrfLoop(m, n, lda, [a |-> a, ipiv |-> ipiv, info |-> 0], 1)

(***************************************************************************)
(* xLASWP: row interchanges on the n columns of a, for the rows k1..k2, in *)
(* increasing order when incx > 0 and decreasing order when incx < 0.  The *)
(* pivot of the first row handled is at ipiv[ix0], and the position in     *)
(* ipiv advances by incx with every row.  The columns are handled in       *)
(* blocks of 32, then the remaining ones.                                  *)
(* The routine does no bounds checking: it works on the memory that starts *)
(* at a.  A position inside the buffer but past the column's end aliases   *)
(* the next column; a position past the buffer is the memory behind it,    *)
(* of unspecified content, where writes land and are read back by later    *)
(* interchanges.  Returns the buffer as the routine leaves it.             *)
(***************************************************************************)
LaswpBlockSize == 32

SetMax(S) == IF S = {} THEN 0 ELSE CHOOSE x \in S : \A y \in S : y <= x

\* The position in ipiv of the pivot of row i.
LaswpIx(k1, i, incx) == k1 + (i - k1) * Abs(incx)

\* The last position the interchanges touch.
LaswpTop(n, lda, k1, k2, ipiv, incx) ==
    SetMax({Idx(lda, Max(i, ipiv[LaswpIx(k1, i, incx)]), n) :
              i \in {t \in k1..k2 : ipiv[LaswpIx(k1, t, incx)] # t}})

\* The memory from the start of buffer a up to position top.
Memory(a, top) ==
    [k \in 1..Max(Len(a), top) |-> IF k <= Len(a) THEN a[k] ELSE Unspecified]

SwapAt(mem, x, y) ==
    [k \in 1..Len(mem) |-> IF k = x THEN mem[y] ELSE IF k = y THEN mem[x] ELSE mem[k]]

\* Rows i and ip of the columns c..last.
RECURSIVE LaswpCols(_, _, _, _, _, _)
LaswpCols(mem, lda, i, ip, c, last) ==
    IF c > last THEN mem
    ELSE LaswpCols(SwapAt(mem, Idx(lda, i, c), Idx(lda, ip, c)),
                   lda, i, ip, c + 1, last)

\* The rows i, i + inc, .., i2 of the columns c1..c2, pivots from ipiv[ix] on.
RECURSIVE LaswpLoop(_, _, _, _, _, _, _, _, _, _)
LaswpLoop(mem, lda, c1, c2, i, i2, inc, ipiv, ix, incx) ==
    IF (inc > 0 /\ i > i2) \/ (inc < 0 /\ i < i2) THEN mem
    ELSE LET ip == ipiv[ix]
             m1 == IF ip # i THEN LaswpCols(mem, lda, i, ip, c1, c2) ELSE mem
         IN LaswpLoop(m1, lda, c1, c2, i + inc, i2, inc, ipiv, ix + incx, incx)

\* The column blocks j..j+31 for j = c, c + 32, .. up to n32, then n32+1..n.
RECURSIVE LaswpBlocks(_, _, _, _, _, _, _, _, _, _, _)
LaswpBlocks(mem, lda, c, n32, n, i1, i2, inc, ipiv, ix0, incx) ==
    IF c > n32
    THEN (IF n32 # n
          THEN LaswpLoop(mem, lda, n32 + 1, n, i1, i2, inc, ipiv, ix0, incx)
          ELSE mem)
    ELSE LaswpBlocks(LaswpLoop(mem, lda, c, c + LaswpBlockSize - 1,
                               i1, i2, inc, ipiv, ix0, incx),
                     lda, c + LaswpBlockSize, n32, n, i1, i2, inc, ipiv, ix0, incx)

xlaswp(n, a, lda, k1, k2, ipiv, incx) ==
    IF k2 < k1 \/ incx = 0 \/ n <= 0 THEN a
    ELSE LET mem == Memory(a, LaswpTop(n, lda, k1, k2, ipiv, incx))
             n32 == (n \div LaswpBlockSize) * LaswpBlockSize
             r == IF incx > 0
                  THEN LaswpBlocks(mem, lda, 1, n32, n, k1, k2, 1, ipiv, k1, incx)
                  ELSE LaswpBlocks(mem, lda, 1, n32, n, k2, k1, -1, ipiv,
                                   k1 + (k1 - k2) * incx, incx)
         IN [k \in 1..Len(a) |-> r[k]]

(***************************************************************************)
(* Triangular solves of xTRSM on one column x, with the factors stored in  *)
(* a: unit lower triangle L below the diagonal, U on and above it.         *)
(***************************************************************************)
RECURSIVE SumSeq(_)
SumSeq(s) == IF Len(s) = 0 THEN Zero ELSE RAdd(s[1], SumSeq(Tail(s)))

\* The sum over t in lo..hi of a[t, i] * x[t].
DotCol(a, lda, x, i, lo, hi) ==
    SumSeq([t \in 1..(hi - lo + 1) |->
              RMul(a[Idx(lda, lo + t - 1, i)], x[lo + t - 1])])

\* 'Left', 'Lower', 'No transpose', 'Unit'
RECURSIVE TrsvLowerUnitN(_, _, _, _, _)
TrsvLowerUnitN(a, lda, n, x, k) ==
    IF k > n THEN x
    ELSE TrsvLowerUnitN(a, lda, n,
            IF x[k] # Zero
            THEN [i \in 1..n |-> IF i > k
                                 THEN RSub(x[i], RMul(x[k], a[Idx(lda, i, k)]))
                                 ELSE x[i]]
            ELSE x,
            k + 1)

\* 'Left', 'Upper', 'No transpose', 'Non-unit'
RECURSIVE TrsvUpperN(_, _, _, _, _)
TrsvUpperN(a, lda, n, x, k) ==
    IF k < 1 THEN x
    ELSE TrsvUpperN(a, lda, n,
            IF x[k] # Zero
            THEN LET xk == RDiv(x[k], a[Idx(lda, k, k)])
                 IN [i \in 1..n |-> IF i = k THEN xk
                                    ELSE IF i < k
                                    THEN RSub(x[i], RMul(xk, a[Idx(lda, i, k)]))
                                    ELSE x[i]]
            ELSE x,
            k - 1)

\* 'Left', 'Upper', 'Transpose', 'Non-unit'
RECURSIVE TrsvUpperT(_, _, _, _, _)
TrsvUpperT(a, lda, n, x, i) ==
    IF i > n THEN x
    ELSE LET temp == RDiv(RSub(x[i], DotCol(a, lda, x, i, 1, i - 1)),
                          a[Idx(lda, i, i)])
         IN TrsvUpperT(a, lda, n, [x EXCEPT ![i] = temp], i + 1)

\* 'Left', 'Lower', 'Transpose', 'Unit'
RECURSIVE TrsvLowerUnitT(_, _, _, _, _)
TrsvLowerUnitT(a, lda, n, x, i) ==
    IF i < 1 THEN x
    ELSE LET temp == RSub(x[i], DotCol(a, lda, x, i, i + 1, n))
         IN TrsvLowerUnitT(a, lda, n, [x EXCEPT ![i] = temp], i - 1)

ColumnOf(b, ldb, n, j) == [i \in 1..n |-> b[Idx(ldb, i, j)]]

(***************************************************************************)
(* xGETRS: solves A * X = B ('N') or A^T * X = B ('T', and 'C' for real    *)
(* scalars) from the factorization of xGETRF.  Returns [b, info].  The     *)
(* routine checks its arguments only: it never reports a zero pivot, the   *)
(* division by it yields inf or NaN entries of X.                          *)
(***************************************************************************)
\* LSAME compares the option letter regardless of case.
LSame(ca, cb) ==
    LET Upper(ch) == IF ch = "n" THEN "N"
                     ELSE IF ch = "t" THEN "T"
                     ELSE IF ch = "c" THEN "C"
                     ELSE ch
    IN Upper(ca) = Upper(cb)

xgetrs(trans, n, nrhs, a, lda, ipiv, b, ldb) ==
    LET notran == LSame(trans, "N")
        bad == IF ~notran /\ ~LSame(trans, "T") /\ ~LSame(trans, "C") THEN -1
               ELSE IF n < 0 THEN -2
               ELSE IF nrhs < 0 THEN -3
               ELSE IF lda < Max(1, n) THEN -5
               ELSE IF ldb < Max(1, n) THEN -8
               ELSE 0
        SolveN(x) == TrsvUpperN(a, lda, n, TrsvLowerUnitN(a, lda, n, x, 1), n)
        SolveT(x) == TrsvLowerUnitT(a, lda, n, TrsvUpperT(a, lda, n, x, 1), n)
        b1 == xlaswp(nrhs, b, ldb, 1, n, ipiv, 1)
        InB(k) == RowOf(ldb, k) <= n /\ ColOf(ldb, k) <= nrhs
        bN == [k \in 1..Len(b) |->
                 IF InB(k)
                 THEN SolveN(ColumnOf(b1, ldb, n, ColOf(ldb, k)))[RowOf(ldb, k)]
                 ELSE b1[k]]
        bT == [k \in 1..Len(b) |->
                 IF InB(k)
                 THEN SolveT(ColumnOf(b, ldb, n, ColOf(ldb, k)))[RowOf(ldb, k)]
                 ELSE b[k]]
    IN IF bad # 0 THEN [b |-> b, info |-> bad]
       ELSE IF n = 0 \/ nrhs = 0 THEN [b |-> b, info |-> 0]
       ELSE IF notran THEN [b |-> bN, info |-> 0]
       ELSE [b |-> xlaswp(nrhs, bT, ldb, 1, n, ipiv, -1), info |-> 0]

(***************************************************************************)
(* xGETRI: inverse from the factorization of xGETRF.  With lwork = -1 it   *)
(* is a workspace query: the arguments are checked, work[1] receives the   *)
(* optimal size N * NB and nothing else is done.  After an inversion       *)
(* work[1] is the size used: N for the unblocked code (NB >= N), N * NB    *)
(* for the blocked one.  Returns [a, work1, info].                         *)
(***************************************************************************)
\* The block size NB that ILAENV gives xGETRI.
GetriBlockSize == 64

\* xTRTRI on the upper triangle, column j (columns before j already done).
RECURSIVE TrtriLoop(_, _, _, _)
TrtriLoop(a, lda, n, j) ==
    IF j > n THEN a
    ELSE LET ajj == RDiv(One, a[Idx(lda, j, j)])
             Entry(i) == RMul(RSub(Zero, ajj),
                              SumSeq([t \in 1..(j - i) |->
                                        RMul(a[Idx(lda, i, i + t - 1)],
                                             a[Idx(lda, i + t - 1, j)])]))
         IN TrtriLoop([k \in 1..Len(a) |->
                         LET i == RowOf(lda, k)
                             c == ColOf(lda, k)
                         IN IF c = j /\ i = j THEN ajj
                            ELSE IF c = j /\ i < j THEN Entry(i)
                            ELSE a[k]],
                      lda, n, j + 1)

\* Solve inv(A) * L = inv(U) for inv(A), column j from n down to 1.
RECURSIVE GetriLoop(_, _, _, _)
GetriLoop(a, lda, n, j) ==
    IF j < 1 THEN a
    ELSE GetriLoop([k \in 1..Len(a) |->
                      LET i == RowOf(lda, k)
                          c == ColOf(lda, k)
                      IN IF c = j /\ i <= n
                         THEN RSub(IF i > j THEN Zero ELSE a[k],
                                   SumSeq([t \in 1..(n - j) |->
                                             RMul(a[Idx(lda, i, j + t)],
                                                  a[Idx(lda, j + t, j)])]))
                         ELSE a[k]],
                   lda, n, j - 1)

\* Column interchanges undoing the row interchanges, j from n-1 down to 1.
RECURSIVE GetriSwap(_, _, _, _, _)
GetriSwap(a, lda, n, ipiv, j) ==
    IF j < 1 THEN a
    ELSE LET jp == ipiv[j]
             SwCol(c) == IF c = j THEN jp ELSE IF c = jp THEN j ELSE c
         IN GetriSwap(IF jp # j
                      THEN [k \in 1..Len(a) |->
                              IF RowOf(lda, k) <= n /\ ColOf(lda, k) \in {j, jp}
                              THEN a[Idx(lda, RowOf(lda, k), SwCol(ColOf(lda, k)))]
                              ELSE a[k]]
                      ELSE a,
                      lda, n, ipiv, j - 1)

xgetri(n, a, lda, ipiv, lwork) ==
    LET lquery == (lwork = -1)
        bad == IF n < 0 THEN -1
               ELSE IF lda < Max(1, n) THEN -3
               ELSE IF lwork < Max(1, n) /\ ~lquery THEN -6
               ELSE 0
        zeroDiag == {i \in 1..n : a[Idx(lda, i, i)] = Zero}
        sing == IF zeroDiag = {} THEN 0
                ELSE CHOOSE i \in zeroDiag : \A k \in zeroDiag : i <= k
        lwkopt == n * GetriBlockSize
        iws == IF GetriBlockSize > 1 /\ GetriBlockSize < n
               THEN Max(n * GetriBlockSize, 1)
               ELSE n
    IN IF bad # 0 \/ lquery \/ n = 0 THEN [a |-> a, work1 |-> lwkopt, info |-> bad]
       ELSE IF sing > 0 THEN [a |-> a, work1 |-> lwkopt, info |-> sing]
       ELSE [a |-> GetriSwap(GetriLoop(TrtriLoop(a, lda, n, 1), lda, n, n),
                             lda, n, ipiv, n - 1),
             work1 |-> iws, info |-> 0]

(***************************************************************************)
(* Matrices of nalgebra: [nrows, ncols, data], data the column-major       *)
(* buffer that as_slice / as_mut_slice hand to the native routines.        *)
(***************************************************************************)
NoMat == [nrows |-> 0, ncols |-> 0, data |-> <<>>]
Mat(m, n, d) == [nrows |-> m, ncols |-> n, data |-> d]
At(A, i, j) == A.data[Idx(A.nrows, i, j)]
IsSquare(A) == A.nrows = A.ncols

Identity(n) ==
    Mat(n, n, [k \in 1..(n * n) |-> IF RowOf(n, k) = ColOf(n, k) THEN One ELSE Zero])

MatMul(A, B) ==
    Mat(A.nrows, B.ncols,
        [k \in 1..(A.nrows * B.ncols) |->
           SumSeq([t \in 1..A.ncols |->
                     RMul(At(A, RowOf(A.nrows, k), t), At(B, t, ColOf(A.nrows, k)))])])

Transpose(A) ==
    Mat(A.ncols, A.nrows,
        [k \in 1..(A.nrows * A.ncols) |-> At(A, ColOf(A.ncols, k), RowOf(A.ncols, k))])

\* columns_generic(0, k).into_owned(): the first k columns.
ColumnsGeneric(A, k) == Mat(A.nrows, k, [t \in 1..(A.nrows * k) |-> A.data[t]])

\* rows_generic(0, k).into_owned(): the first k rows.
RowsGeneric(A, k) ==
    Mat(k, A.ncols, [t \in 1..(k * A.ncols) |-> At(A, RowOf(k, t), ColOf(k, t))])

\* fill_upper_triangle(val, 1): the entries strictly above the diagonal.
FillUpperTriangle(A, val) ==
    [A EXCEPT !.data = [t \in 1..Len(A.data) |->
        IF RowOf(A.nrows, t) < ColOf(A.nrows, t) THEN val ELSE A.data[t]]]

\* fill_lower_triangle(val, 1): the entries strictly below the diagonal.
FillLowerTriangle(A, val) ==
    [A EXCEPT !.data = [t \in 1..Len(A.data) |->
        IF RowOf(A.nrows, t) > ColOf(A.nrows, t) THEN val ELSE A.data[t]]]

\* fill_diagonal(val).
FillDiagonal(A, val) ==
    [A EXCEPT !.data = [t \in 1..Len(A.data) |->
        IF RowOf(A.nrows, t) = ColOf(A.nrows, t) THEN val ELSE A.data[t]]]

(***************************************************************************)
(* The diagnostic macros applied to the info code of a native routine.     *)
(***************************************************************************)
\* lapack_panic!(info): fatal on a malformed-argument code (info < 0).  For
\* a positive code (a zero pivot) the macro's description reads both ways:
\* an exactly singular input is no error at factorization time, and any
\* nonzero code of the factorization step is fatal.  anyCodeFatal says
\* which of the two the macro does.
LapackPanic(info, anyCodeFatal) == info < 0 \/ (anyCodeFatal /\ info > 0)

\* lapack_check!(info): fatal on a malformed-argument code, `return None`
\* on a numerical failure, otherwise falls through.
LapackCheck(info) ==
    IF info < 0 THEN "panic" ELSE IF info > 0 THEN "None" ELSE "continue"

\* lapack_test!(info): whether the routine succeeded.
LapackTest(info) == info = 0

(***************************************************************************)
(* The record of one call into a native routine: the buffers handed over   *)
(* and the dimensions passed with them.  a is the matrix buffer (lda, and  *)
(* acols columns), b a second one (xGETRS); npiv pivots are announced, the *)
(* pivot buffer holds plen; piv are the pivots handed over as input,      *)
(* applied to a buffer of prows rows (columns, for xGETRI).                *)
(***************************************************************************)
Call(fn, alen, lda, acols, blen, ldb, bcols, npiv, plen, piv, prows, lwork) ==
    [fn |-> fn, alen |-> alen, lda |-> lda, acols |-> acols,
     blen |-> blen, ldb |-> ldb, bcols |-> bcols,
     npiv |-> npiv, plen |-> plen, piv |-> piv, prows |-> prows, lwork |-> lwork]

\* The interchanges the routine performs: pivot i with piv[i] # i.
PivotsUsed(c) == {i \in 1..Min(c.npiv, Len(c.piv)) : c.piv[i] # i}

\* The native routine stays inside the buffers it was given.
CallInBounds(c) ==
    /\ c.alen >= c.lda * c.acols
    /\ c.blen >= c.ldb * c.bcols
    /\ (c.piv # <<>> => c.plen >= c.npiv)
    /\ \A i \in PivotsUsed(c) : i <= c.prows /\ c.piv[i] \in 1..c.prows

(***************************************************************************)
(* LU::new                                                                 *)
(***************************************************************************)
LUNewCall(m) ==
    Call("xgetrf", Len(m.data), m.nrows, m.ncols, 0, 0, 0,
         Min(m.nrows, m.ncols), Min(m.nrows, m.ncols), <<>>, m.nrows, 0)

LUNew(m, anyCodeFatal) ==
    LET k == Min(m.nrows, m.ncols)
        ipiv == [i \in 1..k |-> 0]
        r == xgetrf(m.nrows, m.ncols, m.data, m.nrows, ipiv)
    IN [panic |-> LapackPanic(r.info, anyCodeFatal),
        lu |-> Mat(m.nrows, m.ncols, r.a),
        p |-> r.ipiv,
        info |-> r.info]

(***************************************************************************)
(* LU::l, LU::u, LU::permute, LU::p                                        *)
(***************************************************************************)
\* LUl without the unit diagonal (fill_diagonal left out).
LUlNoDiagonal(h) ==
    FillUpperTriangle(ColumnsGeneric(h.lu, Min(h.lu.nrows, h.lu.ncols)), Zero)

LUl(h) ==
    FillDiagonal(
        FillUpperTriangle(ColumnsGeneric(h.lu, Min(h.lu.nrows, h.lu.ncols)), Zero),
        One)

LUu(h) ==
    FillLowerTriangle(RowsGeneric(h.lu, Min(h.lu.nrows, h.lu.ncols)), Zero)

LUPermuteCall(h, rhs) ==
    Call("xlaswp", Len(rhs.data), rhs.nrows, rhs.ncols, 0, 0, 0,
         Len(h.p), Len(h.p), h.p, rhs.nrows, 0)

\* LUPermute applying the interchanges in increasing order (incx = 1).
LUPermuteForward(h, rhs) ==
    [rhs EXCEPT !.data =
        xlaswp(rhs.ncols, rhs.data, rhs.nrows, 1, Len(h.p), h.p, 1)]

LUPermute(h, rhs) ==
    [rhs EXCEPT !.data =
        xlaswp(rhs.ncols, rhs.data, rhs.nrows, 1, Len(h.p), h.p, -1)]

LUp(h) == LUPermute(h, Identity(h.lu.nrows))

(***************************************************************************)
(* LU::generic_solve_mut and the six solve entry points.                   *)
(* Returns [ret, b, calls]: ret is "panic", "true" or "false".             *)
(***************************************************************************)
GenericSolveCall(h, b) ==
    Call("xgetrs", Len(h.lu.data), h.lu.nrows, h.lu.nrows,
         Len(b.data), h.lu.nrows, b.ncols,
         h.lu.nrows, Len(h.p), h.p, h.lu.nrows, 0)

\* GenericSolveMut reporting a shape mismatch as `false` instead of failing.
GenericSolveMutNoAssert(h, trans, b) ==
    LET dim == h.lu.nrows
    IN IF ~IsSquare(h.lu) \/ b.nrows # dim
       THEN [ret |-> "false", b |-> b, calls |-> <<>>]
       ELSE LET r == xgetrs(trans, dim, b.ncols, h.lu.data, dim, h.p, b.data, dim)
            IN [ret |-> IF LapackTest(r.info) THEN "true" ELSE "false",
                b |-> [b EXCEPT !.data = r.b],
                calls |-> <<GenericSolveCall(h, b)>>]

GenericSolveMut(h, trans, b) ==
    LET dim == h.lu.nrows
    IN IF ~IsSquare(h.lu) \/ b.nrows # dim
       THEN [ret |-> "panic", b |-> b, calls |-> <<>>]
       ELSE LET r == xgetrs(trans, dim, b.ncols, h.lu.data, dim, h.p, b.data, dim)
            IN [ret |-> IF LapackTest(r.info) THEN "true" ELSE "false",
                b |-> [b EXCEPT !.data = r.b],
                calls |-> <<GenericSolveCall(h, b)>>]

\* solve, solve_transpose, solve_conjugate_transpose: on a clone of b.
OptionOf(r) ==
    [ret |-> IF r.ret = "true" THEN "Some" ELSE IF r.ret = "false" THEN "None" ELSE r.ret,
     out |-> IF r.ret = "true" THEN r.b ELSE NoMat,
     calls |-> r.calls]

\* solve_mut, solve_transpose_mut, solve_adjoint_mut: in place.
InPlaceOf(r) == [ret |-> r.ret, out |-> r.b, calls |-> r.calls]

\* LUSolveTranspose with the mode of the untransposed system.
LUSolveTransposeNoTrans(h, b) == OptionOf(GenericSolveMut(h, "N", b))

LUSolve(h, b) == OptionOf(GenericSolveMut(h, "T", b))
LUSolveTranspose(h, b) == OptionOf(GenericSolveMut(h, "T", b))
LUSolveConjugateTranspose(h, b) == OptionOf(GenericSolveMut(h, "T", b))
LUSolveMut(h, b) == InPlaceOf(GenericSolveMut(h, "T", b))
LUSolveTransposeMut(h, b) == InPlaceOf(GenericSolveMut(h, "T", b))
LUSolveAdjointMut(h, b) == InPlaceOf(GenericSolveMut(h, "T", b))

(***************************************************************************)
(* LU::inverse.  Returns [ret, out, calls]: ret is "panic", "None", "Some".*)
(***************************************************************************)
XgetriWorkSize(n, a, lda, ipiv) ==
    LET r == xgetri(n, a, lda, ipiv, -1)
    IN [lwork |-> r.work1, info |-> r.info]

LUInverseCall(h, lwork) ==
    Call(IF lwork = -1 THEN "xgetri_work_size" ELSE "xgetri",
         Len(h.lu.data), h.lu.nrows, h.lu.nrows, 0, 0, 0,
         h.lu.nrows, Len(h.p), h.p, h.lu.nrows, lwork)

\* LUInverse passing the query's lwork = -1 to the real call as well.
LUInverseQueryTwice(h) ==
    LET dim == h.lu.nrows
        q == XgetriWorkSize(dim, h.lu.data, dim, h.p)
        probe == LUInverseCall(h, -1)
    IN IF LapackCheck(q.info) # "continue"
       THEN [ret |-> LapackCheck(q.info), out |-> NoMat, calls |-> <<probe>>]
       ELSE LET r == xgetri(dim, h.lu.data, dim, h.p, -1)
                cs == <<probe, probe>>
            IN IF LapackCheck(r.info) # "continue"
               THEN [ret |-> LapackCheck(r.info), out |-> NoMat, calls |-> cs]
               ELSE [ret |-> "Some", out |-> [h.lu EXCEPT !.data = r.a], calls |-> cs]

LUInverse(h) ==
    LET dim == h.lu.nrows
        q == XgetriWorkSize(dim, h.lu.data, dim, h.p)
        probe == LUInverseCall(h, -1)
    IN IF LapackCheck(q.info) # "continue"
       THEN [ret |-> LapackCheck(q.info), out |-> NoMat, calls |-> <<probe>>]
       ELSE LET r == xgetri(dim, h.lu.data, dim, h.p, q.lwork)
                cs == <<probe, LUInverseCall(h, q.lwork)>>
            IN IF LapackCheck(r.info) # "continue"
               THEN [ret |-> LapackCheck(r.info), out |-> NoMat, calls |-> cs]
               ELSE [ret |-> "Some", out |-> [h.lu EXCEPT !.data = r.a], calls |-> cs]

(***************************************************************************)
(* The state: the matrix handed to LU::new, the handle, and the last call  *)
(* made on it with its argument, its result and the native calls it made.  *)
(***************************************************************************)
VARIABLES
    M,        \* the matrix given to LU::new
    panicOnAnyCode, \* whether lapack_panic! is fatal on a positive code too
    phase,    \* "start", "live" (a handle exists), "failed" (new panicked),
              \* "consumed" (inverse took the handle)
    lu, p,    \* the fields of the handle
    info,     \* the diagnostic code xGETRF gave LU::new
    opName,   \* the operation that last returned, "idle" between calls
    opArg,    \* its matrix argument (rhs or b), NoMat if none
    opRet,    \* "ok", "panic", "Some", "None", "true", "false", "crash"
    opOut,    \* the matrix returned, or b / rhs after an in-place call
    calls,    \* the native calls of the last operation, in order
    ub        \* a native routine went outside a buffer it was given

vars == <<M, panicOnAnyCode, phase, lu, p, info, opName, opArg, opRet, opOut, calls, ub>>

Scalars == {FromInt(v) : v \in 0..MaxVal}

MatricesOf(rows, cols, vals) ==
    UNION {{Mat(d[1], d[2], x) : x \in [1..(d[1] * d[2]) -> {FromInt(v) : v \in vals}]} :
           d \in rows \X cols}

Inputs ==
    MatricesOf(0..MaxDim, 0..MaxDim, 0..MaxVal)
        \cup MatricesOf(1..MaxSmallDim, 1..MaxSmallDim, (0 - MaxSmallVal)..MaxSmallVal)
Rhs == MatricesOf(1..MaxDim, 1..MaxRhsCols, 0..MaxVal)

handle == [lu |-> lu, p |-> p]

Init ==
    /\ M \in Inputs
    /\ panicOnAnyCode \in BOOLEAN
    /\ phase = "start"
    /\ lu = NoMat
    /\ p = <<>>
    /\ info = 0
    /\ opName = "idle"
    /\ opArg = NoMat
    /\ opRet = "ok"
    /\ opOut = NoMat
    /\ calls = <<>>
    /\ ub = FALSE

New ==
    /\ phase = "start"
    /\ LET r == LUNew(M, panicOnAnyCode)
       IN /\ phase' = IF r.panic THEN "failed" ELSE "live"
          /\ lu' = IF r.panic THEN NoMat ELSE r.lu
          /\ p' = IF r.panic THEN <<>> ELSE r.p
          /\ info' = r.info
          /\ opRet' = IF r.panic THEN "panic" ELSE "ok"
    /\ opName' = "new"
    /\ opArg' = M
    /\ opOut' = NoMat
    /\ calls' = <<LUNewCall(M)>>
    /\ UNCHANGED <<M, panicOnAnyCode, ub>>

\* The caller may call into the handle: it exists and no call is pending.
Callable == phase = "live" /\ opName = "idle"

\* The caller takes the result of the last call; the handle is as it was.
Return ==
    /\ opName # "idle"
    /\ opName' = "idle"
    /\ opArg' = NoMat
    /\ opRet' = "ok"
    /\ opOut' = NoMat
    /\ calls' = <<>>
    /\ UNCHANGED <<M, panicOnAnyCode, phase, lu, p, info, ub>>

\* An operation that reads the handle and calls no native routine.
Pure(name, out) ==
    /\ Callable
    /\ opName' = name
    /\ opArg' = NoMat
    /\ opRet' = "ok"
    /\ opOut' = out
    /\ calls' = <<>>
    /\ UNCHANGED <<M, panicOnAnyCode, phase, lu, p, info, ub>>

GetL == Pure("l", LUl(handle))

GetU == Pure("u", LUu(handle))

GetP ==
    /\ Callable
    /\ opName' = "p"
    /\ opArg' = NoMat
    /\ opRet' = "ok"
    /\ opOut' = LUp(handle)
    /\ calls' = <<LUPermuteCall(handle, Identity(lu.nrows))>>
    /\ UNCHANGED <<M, panicOnAnyCode, phase, lu, p, info, ub>>

Permute ==
    /\ Callable
    /\ \E rhs \in Rhs :
         /\ opArg' = rhs
         /\ calls' = <<LUPermuteCall(handle, rhs)>>
         /\ IF CallInBounds(LUPermuteCall(handle, rhs))
            THEN /\ opRet' = "ok"
                 /\ opOut' = LUPermute(handle, rhs)
                 /\ ub' = ub
            ELSE \* xLASWP swaps with the memory behind rhs: the access
                 \* faults, or rhs receives what lay there
                 /\ ub' = TRUE
                 /\ \/ opRet' = "crash" /\ opOut' = rhs
                    \/ opRet' = "ok" /\ opOut' = LUPermute(handle, rhs)
    /\ opName' = "permute"
    /\ UNCHANGED <<M, panicOnAnyCode, phase, lu, p, info>>

\* One of the six solve entry points, with result r on argument b.
Solved(name, b, r) ==
    /\ opName' = name
    /\ opArg' = b
    /\ opRet' = r.ret
    /\ opOut' = r.out
    /\ calls' = r.calls
    /\ UNCHANGED <<M, panicOnAnyCode, phase, lu, p, info, ub>>

Solve == Callable /\ \E b \in Rhs : Solved("solve", b, LUSolve(handle, b))

SolveTranspose ==
    Callable /\ \E b \in Rhs :
        Solved("solve_transpose", b, LUSolveTranspose(handle, b))

SolveConjugateTranspose ==
    Callable /\ \E b \in Rhs :
        Solved("solve_conjugate_transpose", b, LUSolveConjugateTranspose(handle, b))

SolveMut == Callable /\ \E b \in Rhs : Solved("solve_mut", b, LUSolveMut(handle, b))

SolveTransposeMut ==
    Callable /\ \E b \in Rhs :
        Solved("solve_transpose_mut", b, LUSolveTransposeMut(handle, b))

SolveAdjointMut ==
    Callable /\ \E b \in Rhs :
        Solved("solve_adjoint_mut", b, LUSolveAdjointMut(handle, b))

Inverse ==
    /\ Callable
    /\ phase' = "consumed"
    /\ opName' = "inverse"
    /\ opArg' = NoMat
    /\ IF CallInBounds(LUInverseCall(handle, 0))
       THEN LET r == LUInverse(handle)
            IN /\ opRet' = r.ret
               /\ opOut' = r.out
               /\ calls' = r.calls
               /\ ub' = ub
       ELSE \* xGETRI works on dim x dim elements and dim pivots, past the
            \* end of lu and of p: the access faults, or lu is overwritten
            \* with values computed from the memory behind it
            /\ ub' = TRUE
            /\ opRet' \in {"crash", "Some", "None"}
            /\ opOut' = IF opRet' = "Some"
                        THEN [lu EXCEPT !.data = [k \in 1..Len(lu.data) |-> Unspecified]]
                        ELSE NoMat
            /\ calls' = <<LUInverseCall(handle, -1),
                          LUInverseCall(handle,
                              XgetriWorkSize(lu.nrows, lu.data, lu.nrows, p).lwork)>>
    /\ UNCHANGED <<M, panicOnAnyCode, lu, p, info>>

Next ==
    \/ New
    \/ GetL
    \/ GetU
    \/ GetP
    \/ Permute
    \/ Solve
    \/ SolveTranspose
    \/ SolveConjugateTranspose
    \/ SolveMut
    \/ SolveTransposeMut
    \/ SolveAdjointMut
    \/ Inverse
    \/ Return

Spec == Init /\ [][Next]_vars

(***************************************************************************)
(* Properties.                                                             *)
(***************************************************************************)
Minor(A, r, c) ==
    LET n == A.nrows - 1
    IN Mat(n, n, [k \in 1..(n * n) |->
                    LET i == RowOf(n, k)
                        j == ColOf(n, k)
                    IN At(A, IF i < r THEN i ELSE i + 1, IF j < c THEN j ELSE j + 1)])

\* The determinant of a square matrix, by expansion along the first row.
RECURSIVE Det(_)
Det(A) ==
    IF A.nrows = 0 THEN One
    ELSE SumSeq([j \in 1..A.nrows |->
                   RMul(IF j % 2 = 1 THEN One ELSE FromInt(-1),
                        RMul(At(A, 1, j), Det(Minor(A, 1, j))))])

NonSingular(A) == IsSquare(A) /\ A.nrows >= 1 /\ Det(A) # Zero
Singular(A) == IsSquare(A) /\ A.nrows >= 1 /\ Det(A) = Zero

SolveOps == {"solve", "solve_transpose", "solve_conjugate_transpose"}
SolveMutOps == {"solve_mut", "solve_transpose_mut", "solve_adjoint_mut"}

\* The result of a solve entry point is a solution x, of the shape of b.
Solution(name) ==
    /\ opRet = IF name \in SolveOps THEN "Some" ELSE "true"
    /\ opOut.nrows = opArg.nrows
    /\ opOut.ncols = opArg.ncols

\* C1: p() * l() * u() equals the matrix given to LU::new, p() being the
\* m x m matrix that permute makes of the identity.
PLUEqualsM ==
    opName = "p" =>
        /\ opOut.nrows = M.nrows /\ opOut.ncols = M.nrows
        /\ MatMul(opOut, MatMul(LUl(handle), LUu(handle))) = M

\* p() was called on a factorization with two successive row interchanges.
PLUWitness ==
    /\ opName = "p"
    /\ M.nrows = 3 /\ M.ncols = 3
    /\ p[1] # 1 /\ p[2] # 2
    /\ MatMul(opOut, MatMul(LUl(handle), LUu(handle))) = M

\* C2: for non-singular M and b with as many rows, solve returns Some(x)
\* and solve_mut returns true, with M * x = b and x of the shape of b.
SolveSolvesSystem ==
    (opName \in {"solve", "solve_mut"} /\ NonSingular(M) /\ opArg.nrows = M.nrows) =>
        /\ Solution(opName)
        /\ MatMul(M, opOut) = opArg

\* C3: for non-singular M and b with as many rows, solve_transpose returns
\* Some(x) and solve_transpose_mut returns true, with transpose(M) * x = b.
SolveTransposeSolvesSystem ==
    (/\ opName \in {"solve_transpose", "solve_transpose_mut"}
     /\ NonSingular(M)
     /\ opArg.nrows = M.nrows) =>
        /\ Solution(opName)
        /\ MatMul(Transpose(M), opOut) = opArg

\* solve_transpose_mut solved a system whose matrix is not symmetric and
\* was factorized with a row interchange.
SolveTransposeWitness ==
    /\ opName = "solve_transpose_mut"
    /\ NonSingular(M) /\ M.nrows = 3 /\ M # Transpose(M)
    /\ p[1] # 1
    /\ opRet = "true"
    /\ opArg # opOut
    /\ MatMul(Transpose(M), opOut) = opArg

\* C4: for non-singular M, inverse returns Some(Inv) with Inv * M the
\* identity, and the handle is consumed.
InverseIsLeftInverse ==
    (opName = "inverse" /\ NonSingular(M)) =>
        /\ opRet = "Some"
        /\ MatMul(opOut, M) = Identity(M.nrows)
        /\ phase = "consumed"

\* inverse returned the inverse, with a fractional entry, of a 3 x 3 matrix.
InverseWitness ==
    /\ opName = "inverse"
    /\ NonSingular(M) /\ M.nrows = 3
    /\ opRet = "Some"
    /\ \E k \in 1..Len(opOut.data) : opOut.data[k][2] > 1
    /\ phase = "consumed"
    /\ ~ub

\* C6: for singular square M, the solve entry points return None / false
\* and inverse returns None; none of them panics.
SingularGivesNoResult ==
    (/\ Singular(M)
     /\ \/ opName = "inverse"
        \/ opName \in SolveOps \cup SolveMutOps /\ opArg.nrows = M.nrows) =>
        opRet = IF opName \in SolveMutOps THEN "false" ELSE "None"

\* C7: each solve entry point fails when the factorized matrix is not
\* square or b has another number of rows: xGETRS is not called, nothing
\* is returned, and the _mut variants leave b as it was.
SolveShapeMismatchPanics ==
    (/\ opName \in SolveOps \cup SolveMutOps
     /\ (~IsSquare(lu) \/ opArg.nrows # lu.nrows)) =>
        /\ opRet = "panic"
        /\ calls = <<>>
        /\ opOut = IF opName \in SolveMutOps THEN opArg ELSE NoMat

\* solve_mut was given a b with fewer rows than the square matrix has.
SolveShapeMismatchWitness ==
    /\ opName = "solve_mut"
    /\ IsSquare(lu) /\ lu.nrows = 3
    /\ opArg.nrows = 2
    /\ opRet = "panic"

LFactorOf(out, A) ==
    /\ out.nrows = A.nrows
    /\ out.ncols = Min(A.nrows, A.ncols)
    /\ \A i \in 1..out.nrows : \A j \in 1..out.ncols :
         At(out, i, j) = IF i = j THEN One ELSE IF i < j THEN Zero ELSE At(A, i, j)

UFactorOf(out, A) ==
    /\ out.nrows = Min(A.nrows, A.ncols)
    /\ out.ncols = A.ncols
    /\ \A i \in 1..out.nrows : \A j \in 1..out.ncols :
         At(out, i, j) = IF i > j THEN Zero ELSE At(A, i, j)

\* C8: l() is m x k with unit diagonal, zeros above it and the stored
\* entries below it; u() is k x n with zeros below the diagonal and the
\* stored entries elsewhere; neither changes the stored matrix or pivots.
FactorsExtracted ==
    [][/\ opName' = "l" => (LFactorOf(opOut', lu) /\ lu' = lu /\ p' = p)
       /\ opName' = "u" => (UFactorOf(opOut', lu) /\ lu' = lu /\ p' = p)]_vars

\* l() was called on the factorization of a 2 x 2 matrix with a fractional
\* multiplier below the diagonal.
FactorsWitness ==
    /\ opName = "l"
    /\ lu.nrows = 2 /\ lu.ncols = 2
    /\ At(lu, 2, 1)[2] > 1
    /\ LFactorOf(opOut, lu)

\* The buffers of a native call match the dimensions passed with them.
CallMatches(c) ==
    /\ c.alen = c.lda * c.acols
    /\ c.blen = c.ldb * c.bcols
    /\ c.plen >= c.npiv
    /\ \A i \in PivotsUsed(c) : i <= c.prows /\ c.piv[i] \in 1..c.prows

\* C10: in the native call of permute(rhs), the buffers match the
\* dimensions passed and every pivot used is a row of rhs.
PermuteCallMatchesBuffers ==
    opName = "permute" => \A k \in 1..Len(calls) : CallMatches(calls[k])

====
